---- MODULE Spec2Model ----
(***************************************************************************)
(* Model of backend/relevance_filter.py: the rule-based relevance filter   *)
(* that reduces an NBA box-score record to an ordered list of fact strings *)
(* and renders them into an LLM prompt.                                    *)
(*                                                                         *)
(* JSON values are tagged records; a Python dict is a record over the keys *)
(* the code reads, an absent key holding Missing.  Strings are TLA+        *)
(* strings, built and inspected with \o, Len and SubSeq, so that every     *)
(* fact is the text the f-strings of the source produce.                   *)
(***************************************************************************)
EXTENDS Integers, Sequences, FiniteSets, TLC

VARIABLES game_data, tone, team_data, home_team, away_team, game_time_local, called, ret, exc,
          wall_clock, scoreboard_today, refreshed_at, overwrites,
          boxscore_files, summary_files, service_calls, mock_summaries, req

vars == <<game_data, tone, team_data, home_team, away_team, game_time_local, called, ret, exc,
          wall_clock, scoreboard_today, refreshed_at, overwrites,
          boxscore_files, summary_files, service_calls, mock_summaries, req>>

(***************************************************************************)
(* JSON / Python values                                                    *)
(***************************************************************************)
\* a key that is not in the dict
Missing == [t |-> "missing", n |-> 0, s |-> ""]
\* JSON null, Python None
PyNone == [t |-> "null", n |-> 0, s |-> ""]
PyInt(i) == [t |-> "int", n |-> i, s |-> ""]
\* a float with three decimals, held in thousandths (0.456 is PyFloat(456))
PyFloat(m) == [t |-> "float", n |-> m, s |-> ""]
PyStr(x) == [t |-> "str", n |-> 0, s |-> x]
\* Python bool: True is 1, False is 0
PyBool(b) == [t |-> "bool", n |-> IF b THEN 1 ELSE 0, s |-> ""]
PyDict(d) == [t |-> "dict", n |-> 0, s |-> "", d |-> d]

IsNumber(v) == v.t \in {"int", "float", "bool"}
\* the value of a number in thousandths
Milli(v) == IF v.t = "float" THEN v.n ELSE v.n * 1000

\* a variant that indexes the dict, d[key], and so has no default for an absent key
GetItem(v, key, default) == v.d[key]

\* dict.get(key, default) on a value that is a dict
Get(v, key, default) == IF v.d[key].t = "missing" THEN default ELSE v.d[key]

\* bool(v): Python truthiness
Truthy(v) ==
    CASE v.t = "null" -> FALSE
      [] v.t = "str" -> v.s # ""
      [] v.t = "dict" -> \E k \in DOMAIN v.d : v.d[k].t # "missing"
      [] OTHER -> v.n # 0

(***************************************************************************)
(* Text                                                                    *)
(***************************************************************************)
Digit(d) == SubSeq("0123456789", d + 1, d + 1)

RECURSIVE NatToStr(_)
NatToStr(i) == IF i < 10 THEN Digit(i) ELSE NatToStr(i \div 10) \o Digit(i % 10)

IntToStr(i) == IF i < 0 THEN "-" \o NatToStr(-i) ELSE NatToStr(i)

\* format(x, ".1%") for x given in thousandths: 456 is "45.6%"
FormatPercent(m) ==
    IF m < 0 THEN "-" \o NatToStr((-m) \div 10) \o "." \o Digit((-m) % 10) \o "%"
    ELSE NatToStr(m \div 10) \o "." \o Digit(m % 10) \o "%"

\* repr of a float given in thousandths: 456 is "0.456", 500 is "0.5"
FloatToStr(m) ==
    LET a == IF m < 0 THEN -m ELSE m
        f == a % 1000
        frac == IF f % 100 = 0 THEN Digit(f \div 100)
                ELSE IF f % 10 = 0 THEN Digit(f \div 100) \o Digit((f \div 10) % 10)
                ELSE Digit(f \div 100) \o Digit((f \div 10) % 10) \o Digit(f % 10)
    IN (IF m < 0 THEN "-" ELSE "") \o NatToStr(a \div 1000) \o "." \o frac

\* str(v), as an f-string placeholder renders it
ToText(v) ==
    CASE v.t = "str" -> v.s
      [] v.t = "int" -> IntToStr(v.n)
      [] v.t = "float" -> FloatToStr(v.n)
      [] v.t = "bool" -> IF v.n = 1 THEN "True" ELSE "False"
      [] v.t = "null" -> "None"
      [] OTHER -> "{}"

IsSpace(c) == c \in {" ", "\t", "\n", "\r"}

\* str.strip()
Strip(x) ==
    LET keep == {i \in 1..Len(x) : ~IsSpace(SubSeq(x, i, i))}
        lo == CHOOSE i \in keep : \A j \in keep : i <= j
        hi == CHOOSE i \in keep : \A j \in keep : i >= j
    IN IF keep = {} THEN "" ELSE SubSeq(x, lo, hi)

StartsWith(x, p) == Len(x) >= Len(p) /\ SubSeq(x, 1, Len(p)) = p
EndsWith(x, p) == Len(x) >= Len(p) /\ SubSeq(x, Len(x) - Len(p) + 1, Len(x)) = p
Contains(x, p) == \E i \in 1..(Len(x) - Len(p) + 1) : SubSeq(x, i, i + Len(p) - 1) = p

Abs(i) == IF i < 0 THEN -i ELSE i

\* str.capitalize() of the two words the code capitalizes
Capitalize(w) == IF w = "home" THEN "Home" ELSE IF w = "away" THEN "Away" ELSE w

(***************************************************************************)
(* The dict literals {} the code passes as defaults, one per record shape  *)
(***************************************************************************)
StatKeys ==
    {"benchPoints", "biggestLead", "biggestLeadScore", "reboundsOffensive",
     "reboundsDefensive", "reboundsTotal", "turnoversTotal",
     "fieldGoalsPercentage", "threePointersPercentage", "threePointersMade",
     "pointsFastBreak", "pointsFromTurnovers", "leadChanges"}
TeamKeys == {"teamCity", "teamName", "score", "statistics"}
ArenaKeys == {"arenaName", "arenaCity"}
GameKeys == {"gameTimeLocal", "arena", "sellout", "homeTeam", "awayTeam"}

EmptyStats == PyDict([k \in StatKeys |-> Missing])
EmptyTeam == PyDict([k \in TeamKeys |-> Missing])
EmptyArena == PyDict([k \in ArenaKeys |-> Missing])
EmptyGame == PyDict([k \in GameKeys |-> Missing])
EmptyRecord == PyDict([game |-> Missing])

(***************************************************************************)
(* Results: a function returns a list, or an exception leaves it           *)
(***************************************************************************)
Return(v) == [exc |-> "", val |-> v]
Raise(e) == [exc |-> e, val |-> <<>>]

\* the statements of a function body run in order: the first one that
\* raises ends the call, otherwise the appended facts are concatenated
RECURSIVE RunFrom(_, _, _)
RunFrom(steps, i, acc) ==
    IF i > Len(steps) THEN Return(acc)
    ELSE IF steps[i].exc # "" THEN Raise(steps[i].exc)
    ELSE RunFrom(steps, i + 1, acc \o steps[i].val)

Run(steps) == RunFrom(steps, 1, <<>>)

\* a statement that appends nothing, one that appends a fact, one that raises
Skip == Return(<<>>)
Emit(fact) == Return(<<fact>>)

(***************************************************************************)
(* extract_team_statistics                                                 *)
(***************************************************************************)
\* a variant without the .strip()
TeamNameUnstripped(team) ==
    ToText(Get(team, "teamCity", PyStr(""))) \o " " \o ToText(Get(team, "teamName", PyStr("")))

\* f"{teamCity} {teamName}".strip()
TeamName(team) ==
    Strip(ToText(Get(team, "teamCity", PyStr(""))) \o " "
          \o ToText(Get(team, "teamName", PyStr(""))))

\* a variant that also writes "0 point"
PointWordUpToOne(n) == IF n <= 1000 THEN "point" ELSE "points"

\* "point" if n == 1 else "points", n in thousandths
PointWord(n) == IF n = 1000 THEN "point" ELSE "points"

\* a variant with the cutoffs included
FieldGoalNotableInclusive(m) == m >= 500 \/ m <= 400

\* a variant that takes a percentage of 0 for a missing one
FieldGoalNotableNonZero(m) == m > 500 \/ (m > 0 /\ m < 400)

\* fg_percentage > 0.5 or fg_percentage < 0.4, in thousandths
FieldGoalNotable(m) == m > 500 \/ m < 400

\* three_pt_percentage > 0.4 or (three_pt_percentage < 0.25 and three_pt_made > 5)
ThreePointNotable(pct, made) == pct > 400 \/ (pct < 250 /\ made > 5000)

\* a comparison of a stat with a number raises TypeError unless the stat is a number
ExtractTeamStatistics(team, team_type) ==
    IF team.t # "dict" THEN Raise("AttributeError")
    \* team_stats.get on a value that is not a dict
    ELSE IF Get(team, "statistics", EmptyStats).t # "dict" THEN Raise("AttributeError")
    ELSE
    LET team_name == TeamName(team)
        team_stats == Get(team, "statistics", EmptyStats)
        score == Get(team, "score", PyInt(0))
        Stat(key, default) == Get(team_stats, key, default)
        bench_points == Stat("benchPoints", PyInt(0))
        biggest_lead == Stat("biggestLead", PyInt(0))
        lead_score == Stat("biggestLeadScore", PyStr(""))
        rebounds_offensive == Stat("reboundsOffensive", PyInt(0))
        rebounds_defensive == Stat("reboundsDefensive", PyInt(0))
        rebounds_total == Stat("reboundsTotal", PyInt(0))
        turnovers_total == Stat("turnoversTotal", PyInt(0))
        fg_percentage == Stat("fieldGoalsPercentage", PyInt(0))
        three_pt_percentage == Stat("threePointersPercentage", PyInt(0))
        three_pt_made == Stat("threePointersMade", PyInt(0))
        fast_break_points == Stat("pointsFastBreak", PyInt(0))
        points_from_turnovers == Stat("pointsFromTurnovers", PyInt(0))
    IN Run(<<
        Emit(team_name \o ": " \o ToText(score) \o " points"),
        IF ~IsNumber(bench_points) THEN Raise("TypeError")
        ELSE IF Milli(bench_points) > 0
             THEN Emit(team_name \o " bench: " \o ToText(bench_points) \o " points")
             ELSE Skip,
        IF ~IsNumber(biggest_lead) THEN Raise("TypeError")
        ELSE IF Milli(biggest_lead) > 0
             THEN Emit(team_name \o " biggest lead: " \o ToText(biggest_lead) \o " "
                         \o PointWord(Milli(biggest_lead))
                         \o " (" \o ToText(lead_score) \o ")")
             ELSE Skip,
        Emit(team_name \o " rebounds: " \o ToText(rebounds_total) \o " total ("
               \o ToText(rebounds_offensive) \o " offensive, "
               \o ToText(rebounds_defensive) \o " defensive)"),
        Emit(team_name \o " turnovers: " \o ToText(turnovers_total)),
        IF ~IsNumber(fg_percentage) THEN Raise("TypeError")
        ELSE IF FieldGoalNotable(Milli(fg_percentage))
             THEN Emit(team_name \o " field goal percentage: "
                         \o FormatPercent(Milli(fg_percentage)))
             ELSE Skip,
        IF ~IsNumber(three_pt_percentage) THEN Raise("TypeError")
        \* three_pt_made is compared only when the percentage is below 0.25
        ELSE IF Milli(three_pt_percentage) < 250 /\ ~(Milli(three_pt_percentage) > 400)
                /\ ~IsNumber(three_pt_made)
             THEN Raise("TypeError")
        ELSE IF ThreePointNotable(Milli(three_pt_percentage),
                                  IF IsNumber(three_pt_made) THEN Milli(three_pt_made) ELSE 0)
             THEN Emit(team_name \o " three-pointers: " \o ToText(three_pt_made)
                       \o " made (" \o FormatPercent(Milli(three_pt_percentage)) \o ")")
             ELSE Skip,
        IF ~IsNumber(fast_break_points) THEN Raise("TypeError")
        ELSE IF Milli(fast_break_points) >= 15000
             THEN Emit(team_name \o " fast break points: " \o ToText(fast_break_points))
             ELSE Skip,
        IF ~IsNumber(points_from_turnovers) THEN Raise("TypeError")
        ELSE IF Milli(points_from_turnovers) >= 15000
             THEN Emit(team_name \o " points off turnovers: " \o ToText(points_from_turnovers))
             ELSE Skip
    >>)

(***************************************************************************)
(* calculate_game_context                                                  *)
(***************************************************************************)
\* abs(a - b) of two numbers, as Python renders it in an f-string
AbsDiff(a, b) == Abs(Milli(a) - Milli(b))
DiffText(a, b) ==
    IF a.t = "float" \/ b.t = "float" THEN FloatToStr(AbsDiff(a, b))
    ELSE IntToStr(AbsDiff(a, b) \div 1000)

\* the band of the point differential (thousandths): its label
BandLabel(point_diff) ==
    IF point_diff <= 5000 THEN " (close game)"
    ELSE IF point_diff <= 10000 THEN ""
    ELSE " (blowout)"

\* a variant that labels a game back-and-forth from 5 lead changes on
LeadChangeFactsFromFive(lead_changes) ==
    IF Milli(lead_changes) >= 5000
    THEN Emit("Game featured " \o ToText(lead_changes) \o " lead changes (back-and-forth)")
    ELSE IF Milli(lead_changes) > 0
    THEN Emit("Game had " \o ToText(lead_changes) \o " lead change(s)")
    ELSE Skip

\* the lead-change fact for a count, none for a count of 0 or less
LeadChangeFacts(lead_changes) ==
    IF Milli(lead_changes) > 5000
    THEN Emit("Game featured " \o ToText(lead_changes) \o " lead changes (back-and-forth)")
    ELSE IF Milli(lead_changes) > 0
    THEN Emit("Game had " \o ToText(lead_changes) \o " lead change(s)")
    ELSE Skip

\* a variant that needs a margin of more than 10 rebounds
ReboundNotableStrict(rebound_diff) == rebound_diff > 10000

\* rebound_diff >= 10, turnover_diff >= 5 (thousandths)
ReboundNotable(rebound_diff) == rebound_diff >= 10000
TurnoverNotable(turnover_diff) == turnover_diff >= 5000

\* "home" if home_rebounds > away_rebounds else "away"
ReboundWinner(home_rebounds, away_rebounds) ==
    IF home_rebounds > away_rebounds THEN "home" ELSE "away"

\* a variant that names the team with more turnovers
TurnoverWinnerMore(home_turnovers, away_turnovers) ==
    IF home_turnovers > away_turnovers THEN "home" ELSE "away"

\* "home" if home_turnovers < away_turnovers else "away"
TurnoverWinner(home_turnovers, away_turnovers) ==
    IF home_turnovers < away_turnovers THEN "home" ELSE "away"

CalculateGameContext(home, away) ==
    IF home.t # "dict" \/ away.t # "dict" THEN Raise("AttributeError")
    ELSE
    LET home_stats == Get(home, "statistics", EmptyStats)
        away_stats == Get(away, "statistics", EmptyStats)
        home_score == Get(home, "score", PyInt(0))
        away_score == Get(away, "score", PyInt(0))
    IN
    IF ~IsNumber(home_score) \/ ~IsNumber(away_score) THEN Raise("TypeError")
    ELSE IF home_stats.t # "dict" THEN Raise("AttributeError")
    ELSE IF ~IsNumber(Get(home_stats, "leadChanges", PyInt(0))) THEN Raise("TypeError")
    ELSE IF away_stats.t # "dict" THEN Raise("AttributeError")
    ELSE
    LET point_diff == AbsDiff(home_score, away_score)
        point_word == PointWord(point_diff)
        decided == "Game was decided by " \o DiffText(home_score, away_score)
                   \o " " \o point_word
        lead_changes == Get(home_stats, "leadChanges", PyInt(0))
        home_rebounds == Get(home_stats, "reboundsTotal", PyInt(0))
        away_rebounds == Get(away_stats, "reboundsTotal", PyInt(0))
        home_turnovers == Get(home_stats, "turnoversTotal", PyInt(0))
        away_turnovers == Get(away_stats, "turnoversTotal", PyInt(0))
    IN Run(<<
        Emit(decided \o BandLabel(point_diff)),
        LeadChangeFacts(lead_changes),
        IF ~IsNumber(home_rebounds) \/ ~IsNumber(away_rebounds) THEN Raise("TypeError")
        ELSE IF ReboundNotable(AbsDiff(home_rebounds, away_rebounds))
        THEN Emit(Capitalize(ReboundWinner(Milli(home_rebounds), Milli(away_rebounds)))
                  \o " team dominated rebounding (+"
                  \o DiffText(home_rebounds, away_rebounds) \o " rebounds)")
        ELSE Skip,
        IF ~IsNumber(home_turnovers) \/ ~IsNumber(away_turnovers) THEN Raise("TypeError")
        ELSE IF TurnoverNotable(AbsDiff(home_turnovers, away_turnovers))
        THEN Emit(Capitalize(TurnoverWinner(Milli(home_turnovers), Milli(away_turnovers)))
                  \o " team had " \o DiffText(home_turnovers, away_turnovers)
                  \o " fewer turnovers")
        ELSE Skip
    >>)

(***************************************************************************)
(* determine_time_of_day                                                   *)
(***************************************************************************)
IsDigits(x) == \A i \in 1..Len(x) : \E d \in 0..9 : SubSeq(x, i, i) = Digit(d)

DigitVal(c) == CHOOSE d \in 0..9 : Digit(d) = c

RECURSIVE StrToNat(_)
StrToNat(x) ==
    IF Len(x) = 0 THEN 0
    ELSE 10 * StrToNat(SubSeq(x, 1, Len(x) - 1)) + DigitVal(SubSeq(x, Len(x), Len(x)))

\* str.replace('Z', '+00:00')
RECURSIVE ReplaceZ(_)
ReplaceZ(x) ==
    IF Len(x) = 0 THEN ""
    ELSE (IF SubSeq(x, 1, 1) = "Z" THEN "+00:00" ELSE SubSeq(x, 1, 1))
         \o ReplaceZ(SubSeq(x, 2, Len(x)))

DaysInMonth(y, m) ==
    IF m \in {4, 6, 9, 11} THEN 30
    ELSE IF m = 2 THEN (IF y % 4 = 0 /\ (y % 100 # 0 \/ y % 400 = 0) THEN 29 ELSE 28)
    ELSE 31

\* "YYYY-MM-DD" naming a real date
ValidDate(x) ==
    /\ Len(x) = 10
    /\ SubSeq(x, 5, 5) = "-" /\ SubSeq(x, 8, 8) = "-"
    /\ IsDigits(SubSeq(x, 1, 4)) /\ IsDigits(SubSeq(x, 6, 7)) /\ IsDigits(SubSeq(x, 9, 10))
    /\ LET y == StrToNat(SubSeq(x, 1, 4))
           m == StrToNat(SubSeq(x, 6, 7))
           d == StrToNat(SubSeq(x, 9, 10))
       IN y >= 1 /\ m \in 1..12 /\ d >= 1 /\ d <= DaysInMonth(y, m)

\* "HH", "HH:MM", "HH:MM:SS", "HH:MM:SS.fff" or "HH:MM:SS.ffffff" within range
ValidClock(x, maxHour) ==
    /\ Len(x) \in {2, 5, 8, 12, 15}
    /\ IsDigits(SubSeq(x, 1, 2)) /\ StrToNat(SubSeq(x, 1, 2)) <= maxHour
    /\ Len(x) >= 5 =>
          SubSeq(x, 3, 3) = ":" /\ IsDigits(SubSeq(x, 4, 5)) /\ StrToNat(SubSeq(x, 4, 5)) <= 59
    /\ Len(x) >= 8 =>
          SubSeq(x, 6, 6) = ":" /\ IsDigits(SubSeq(x, 7, 8)) /\ StrToNat(SubSeq(x, 7, 8)) <= 59
    /\ Len(x) >= 12 => SubSeq(x, 9, 9) = "." /\ IsDigits(SubSeq(x, 10, Len(x)))

\* the position of the UTC offset's sign in the time part, 0 when there is none
OffsetAt(x) ==
    LET signs == {i \in 1..Len(x) : SubSeq(x, i, i) \in {"+", "-"}}
    IN IF signs = {} THEN 0 ELSE CHOOSE i \in signs : \A j \in signs : i <= j

\* datetime.fromisoformat(x).hour, or -1 where fromisoformat raises ValueError
IsoHour(x) ==
    IF Len(x) < 10 \/ ~ValidDate(SubSeq(x, 1, 10)) THEN -1
    ELSE IF Len(x) = 10 THEN 0
    ELSE IF Len(x) = 11 THEN -1
    ELSE
    LET rest == SubSeq(x, 12, Len(x))
        at == OffsetAt(rest)
        clock == IF at = 0 THEN rest ELSE SubSeq(rest, 1, at - 1)
        offset == IF at = 0 THEN "" ELSE SubSeq(rest, at + 1, Len(rest))
    IN IF ValidClock(clock, 23) /\ (at = 0 \/ (Len(offset) >= 5 /\ ValidClock(offset, 23)))
       THEN StrToNat(SubSeq(clock, 1, 2))
       ELSE -1

\* a variant that counts noon as morning: hour <= 12
DetermineTimeOfDayNoonMorning(time_local) ==
    IF time_local.t # "str" THEN "evening"
    ELSE
    LET hour == IsoHour(ReplaceZ(time_local.s))
    IN IF hour < 0 THEN "evening"
       ELSE IF hour <= 12 THEN "morning"
       ELSE IF hour < 17 THEN "afternoon"
       ELSE "evening"

DetermineTimeOfDay(time_local) ==
    \* .replace on a value that is not a string: AttributeError, caught
    IF time_local.t # "str" THEN "evening"
    ELSE
    LET hour == IsoHour(ReplaceZ(time_local.s))
    IN IF hour < 0 THEN "evening"
       ELSE IF hour < 12 THEN "morning"
       ELSE IF hour < 17 THEN "afternoon"
       ELSE "evening"

(***************************************************************************)
(* filter_relevant_statistics and generate_llm_prompt                      *)
(***************************************************************************)
\* a variant without the str() conversion: sellout == '1' or sellout is True
IsSelloutNoStr(sellout) ==
    (sellout.t = "str" /\ sellout.s = "1") \/ (sellout.t = "bool" /\ sellout.n = 1)

\* str(sellout) == '1' or sellout is True
IsSellout(sellout) == ToText(sellout) = "1" \/ (sellout.t = "bool" /\ sellout.n = 1)

\* a variant that extends relevant_stats with the away team's facts first
AssembleAwayFirst(time, venue, sold_out, home_stats, away_stats, context_stats) ==
    <<time, venue, sold_out, away_stats, home_stats, context_stats>>

\* the order in which the groups are appended to relevant_stats
Assemble(time, venue, sold_out, home_stats, away_stats, context_stats) ==
    <<time, venue, sold_out, home_stats, away_stats, context_stats>>

FilterRelevantStatistics(data) ==
    LET game == Get(data, "game", EmptyGame)
    IN
    IF game.t # "dict" THEN Raise("AttributeError")
    ELSE IF Get(game, "arena", EmptyArena).t # "dict" THEN Raise("AttributeError")
    ELSE
    LET time_local == Get(game, "gameTimeLocal", PyStr(""))
        arena == Get(game, "arena", EmptyArena)
        arena_name == Get(arena, "arenaName", PyStr(""))
        arena_city == Get(arena, "arenaCity", PyStr(""))
        sellout == Get(game, "sellout", PyStr("0"))
        home == Get(game, "homeTeam", EmptyTeam)
        away == Get(game, "awayTeam", EmptyTeam)
    IN Run(Assemble(
        IF Truthy(time_local)
        THEN Emit("Game was played in the " \o DetermineTimeOfDay(time_local))
        ELSE Skip,
        IF Truthy(arena_name) /\ Truthy(arena_city)
        THEN Emit("Venue: " \o ToText(arena_name) \o " in " \o ToText(arena_city))
        ELSE Skip,
        IF IsSellout(sellout) THEN Emit("Arena was sold out") ELSE Skip,
        ExtractTeamStatistics(home, "home"),
        ExtractTeamStatistics(away, "away"),
        CalculateGameContext(home, away)))

\* a variant that leaves a blank line between the lines
RECURSIVE JoinBlankLine(_)
JoinBlankLine(lines) ==
    IF Len(lines) = 0 THEN ""
    ELSE IF Len(lines) = 1 THEN lines[1]
    ELSE lines[1] \o "\n\n" \o JoinBlankLine(Tail(lines))

\* "\n".join(lines)
RECURSIVE Join(_)
Join(lines) ==
    IF Len(lines) = 0 THEN ""
    ELSE IF Len(lines) = 1 THEN lines[1]
    ELSE lines[1] \o "\n" \o Join(Tail(lines))

GenerateLlmPrompt(data, style) ==
    LET relevant_stats == FilterRelevantStatistics(data)
        facts_section == Join([i \in 1..Len(relevant_stats.val) |-> "- " \o relevant_stats.val[i]])
    IN IF relevant_stats.exc # "" THEN Raise(relevant_stats.exc)
       ELSE Return("Write a professional NBA recap paragraph.\n\nFacts:\n"
                   \o facts_section \o "\n\nTone: " \o style)

(***************************************************************************)
(* Inputs                                                                  *)
(***************************************************************************)
\* an argument a call does not take
NoArg == Missing

\* a statistics mapping: bench points, biggest lead and its score, offensive,
\* defensive and total rebounds, turnovers, field-goal percentage, three-point
\* percentage and makes, fast-break points, points off turnovers, lead changes
Stats(bp, bl, bls, ro, rd, rt, tov, fg, tpp, tpm, fb, pft, lc) ==
    PyDict([benchPoints |-> bp, biggestLead |-> bl, biggestLeadScore |-> bls,
            reboundsOffensive |-> ro, reboundsDefensive |-> rd,
            reboundsTotal |-> rt, turnoversTotal |-> tov,
            fieldGoalsPercentage |-> fg, threePointersPercentage |-> tpp,
            threePointersMade |-> tpm, pointsFastBreak |-> fb,
            pointsFromTurnovers |-> pft, leadChanges |-> lc])

Team(city, name, score, statistics) ==
    PyDict([teamCity |-> city, teamName |-> name, score |-> score, statistics |-> statistics])

\* a home team and an away team with every optional line notable
HomeStats ==
    Stats(PyInt(35), PyInt(1), PyStr("2-1"), PyInt(10), PyInt(35), PyInt(45), PyInt(10),
          PyFloat(512), PyFloat(410), PyInt(15), PyInt(18), PyInt(20), PyInt(7))
AwayStats ==
    Stats(PyInt(28), PyInt(9), PyStr("30-21"), PyInt(8), PyInt(27), PyInt(35), PyInt(16),
          PyFloat(388), PyFloat(240), PyInt(6), PyInt(15), PyInt(15), PyInt(7))
Celtics == Team(PyStr("Boston"), PyStr("Celtics"), PyInt(115), HomeStats)
Lakers == Team(PyStr("Los Angeles"), PyStr("Lakers"), PyInt(108), AwayStats)

\* the home team with one statistic missing
WithoutStat(key) ==
    Team(PyStr("Boston"), PyStr("Celtics"), PyInt(115),
         PyDict([HomeStats.d EXCEPT ![key] = Missing]))

\* records are partial: any key may be missing, a key that is present holds a
\* value of the type the box score gives it
HomeTeams ==
    {Missing, EmptyTeam, Celtics,
     Team(PyStr("Boston"), PyStr("Celtics"), PyInt(115), Missing),
     Team(PyStr("Boston"), PyStr("Celtics"), PyInt(115), EmptyStats),
     Team(Missing, Missing, Missing, HomeStats)}
    \cup {WithoutStat(key) : key \in StatKeys}

AwayTeams ==
    {Missing, Lakers, Team(Missing, PyStr("Lakers"), PyInt(108), Missing)}

GameTimes ==
    {Missing, PyStr("2021-01-15T11:30:00-05:00"), PyStr("2021-01-15T19:30:00Z"),
     PyStr("tonight")}

Arenas ==
    {Missing, EmptyArena,
     PyDict([arenaName |-> PyStr("TD Garden"), arenaCity |-> PyStr("")]),
     PyDict([arenaName |-> PyStr("TD Garden"), arenaCity |-> PyStr("Boston")])}

Sellouts ==
    {Missing, PyNone, PyStr("1"), PyStr("0"), PyStr("true"), PyInt(1), PyFloat(1000),
     PyBool(TRUE)}

Games ==
    {Missing, EmptyGame}
    \cup {PyDict([gameTimeLocal |-> t, arena |-> a, sellout |-> s, homeTeam |-> h,
                  awayTeam |-> w]) :
            t \in GameTimes, a \in Arenas, s \in Sellouts, h \in HomeTeams, w \in AwayTeams}

GameRecords == {PyDict([game |-> g]) : g \in Games}

Tones == {"neutral, ESPN-style", "excited, highlight-reel style"}

(***************************************************************************)
(* The calls                                                               *)
(***************************************************************************)
\* the state of the server of main.py: the clock, the files of the cache
\* directory, the calls made to the outside, the requests being served
server == <<wall_clock, scoreboard_today, refreshed_at, overwrites,
            boxscore_files, summary_files, service_calls, mock_summaries, req>>

\* the pure functions are called without a server
NoServer ==
    /\ wall_clock = 0 /\ scoreboard_today = Missing /\ refreshed_at = Missing
    /\ overwrites = <<>> /\ boxscore_files = <<>> /\ summary_files = <<>>
    /\ service_calls = <<>> /\ mock_summaries = <<>> /\ req = <<>>

\* the arguments of the calls
args == <<game_data, tone, team_data, home_team, away_team, game_time_local>>

Returned(name, r) ==
    /\ called' = name
    /\ ret' = r.val
    /\ exc' = r.exc

CallFilterRelevantStatistics ==
    /\ Returned("filter_relevant_statistics", FilterRelevantStatistics(game_data))
    /\ UNCHANGED <<args, server>>

CallGenerateLlmPrompt ==
    /\ Returned("generate_llm_prompt", GenerateLlmPrompt(game_data, tone))
    /\ UNCHANGED <<args, server>>

CallExtractTeamStatistics ==
    /\ \E team_type \in {"home", "away"} :
          Returned("extract_team_statistics", ExtractTeamStatistics(team_data, team_type))
    /\ UNCHANGED <<args, server>>

CallCalculateGameContext ==
    /\ Returned("calculate_game_context", CalculateGameContext(home_team, away_team))
    /\ UNCHANGED <<args, server>>

NoCall == called = "" /\ ret = <<>> /\ exc = ""

\* the relevance filter and the prompt composer on whole records
Init ==
    /\ game_data \in GameRecords
    /\ tone \in Tones
    /\ team_data = NoArg /\ home_team = NoArg /\ away_team = NoArg
    /\ game_time_local = NoArg
    /\ NoCall /\ NoServer

Next == CallFilterRelevantStatistics \/ CallGenerateLlmPrompt

Spec == Init /\ [][Next]_vars

(***************************************************************************)
(* extract_team_statistics on team records                                 *)
(***************************************************************************)
MaxBenchPoints == 1
MaxBiggestLead == 2
\* field-goal percentages within PctSpan thousandths of the two cutoffs
PctSpan == 1

OrMissing(values) == {Missing} \cup values
Counts(max) == {PyInt(i) : i \in 0..max}

FieldGoalPercentages ==
    {PyFloat(0), PyFloat(1000)}
    \cup {PyFloat(m) : m \in (400 - PctSpan)..(400 + PctSpan)}
    \cup {PyFloat(m) : m \in (500 - PctSpan)..(500 + PctSpan)}

TeamStatistics ==
    {Stats(bench, lead, PyStr("2-1"), PyInt(10), PyInt(35), PyInt(45), PyInt(10),
           fg, threePct, threeMade, fastBreak, offTurnovers, PyInt(3)) :
        bench \in OrMissing(Counts(MaxBenchPoints)),
        lead \in OrMissing(Counts(MaxBiggestLead)),
        fg \in OrMissing(FieldGoalPercentages),
        threePct \in OrMissing({PyFloat(249), PyFloat(250), PyFloat(400), PyFloat(401)}),
        threeMade \in {PyInt(5), PyInt(6)},
        fastBreak \in {PyInt(14), PyInt(15)},
        offTurnovers \in {PyInt(14), PyInt(15)}}

TeamRecords ==
    {Team(city, name, score, statistics) :
        city \in OrMissing({PyStr("Boston")}),
        name \in OrMissing({PyStr("Celtics")}),
        score \in OrMissing({PyInt(101)}),
        statistics \in OrMissing(TeamStatistics)}

InitTeam ==
    /\ team_data \in TeamRecords
    /\ game_data = NoArg /\ tone = "" /\ home_team = NoArg /\ away_team = NoArg
    /\ game_time_local = NoArg
    /\ NoCall /\ NoServer

NextTeam == CallExtractTeamStatistics

SpecTeam == InitTeam /\ [][NextTeam]_vars

(***************************************************************************)
(* calculate_game_context on pairs of team records                         *)
(***************************************************************************)
MaxScore == 12
MaxLeadChanges == 6
MaxRebounds == 11
MaxTurnovers == 10

\* statistics in which only the fields the game context reads vary
ContextStats(rebTotal, turnovers, leadChanges) ==
    Stats(PyInt(35), PyInt(9), PyStr("30-21"), PyInt(8), PyInt(27), rebTotal, turnovers,
          PyFloat(455), PyFloat(333), PyInt(11), PyInt(9), PyInt(12), leadChanges)

ContextHomeTeams ==
    {Team(PyStr("Boston"), PyStr("Celtics"), score, statistics) :
        score \in OrMissing(Counts(MaxScore)),
        statistics \in OrMissing(
            {ContextStats(reb, tov, lead) :
                reb \in OrMissing(Counts(MaxRebounds)),
                tov \in OrMissing(Counts(MaxTurnovers)),
                lead \in OrMissing(Counts(MaxLeadChanges))})}

ContextAwayTeams ==
    {Team(PyStr("Los Angeles"), PyStr("Lakers"), score, statistics) :
        score \in OrMissing({PyInt(1)}),
        statistics \in OrMissing(
            {ContextStats(reb, tov, PyInt(0)) :
                reb \in OrMissing({PyInt(MaxRebounds)}),
                tov \in OrMissing({PyInt(4), PyInt(MaxTurnovers)})})}

InitContext ==
    /\ home_team \in ContextHomeTeams
    /\ away_team \in ContextAwayTeams
    /\ game_data = NoArg /\ tone = "" /\ team_data = NoArg
    /\ game_time_local = NoArg
    /\ NoCall /\ NoServer

NextContext == CallCalculateGameContext

SpecContext == InitContext /\ [][NextContext]_vars

(***************************************************************************)
(* Properties of the relevance filter and the prompt (Spec)                *)
(***************************************************************************)
Filtered == called = "filter_relevant_statistics" /\ exc = ""
Prompted == called = "generate_llm_prompt" /\ exc = ""

Emitted(fact) == \E i \in 1..Len(ret) : ret[i] = fact

\* the pieces of a text from position start on, cut at the given positions
RECURSIVE LinesFrom(_, _, _)
LinesFrom(text, start, breaks) ==
    IF breaks = {} THEN <<SubSeq(text, start, Len(text))>>
    ELSE LET b == CHOOSE i \in breaks : \A j \in breaks : i <= j
         IN <<SubSeq(text, start, b - 1)>> \o LinesFrom(text, b + 1, breaks \ {b})

\* text.split("\n")
Lines(text) == LinesFrom(text, 1, {i \in 1..Len(text) : SubSeq(text, i, i) = "\n"})

\* the lines of a prompt between the "Facts:" line and the blank line before the tone
FactLines(text) == LET l == Lines(text) IN SubSeq(l, 4, Len(l) - 2)

\* "- <fact>" lines with the "- " taken off
RECURSIVE Unbulleted(_)
Unbulleted(lines) ==
    IF lines = <<>> THEN <<>>
    ELSE <<SubSeq(Head(lines), 3, Len(Head(lines)))>> \o Unbulleted(Tail(lines))

AllBulleted(lines) == \A i \in 1..Len(lines) : StartsWith(lines[i], "- ")

\* the preamble line, the "Facts:" line and the tone line are where the template puts them
WellFormedPrompt(text, style) ==
    LET l == Lines(text)
    IN /\ Len(l) >= 6
       /\ l[1] = "Write a professional NBA recap paragraph."
       /\ l[2] = ""
       /\ l[3] = "Facts:"
       /\ l[Len(l) - 1] = ""
       /\ l[Len(l)] = "Tone: " \o style

NoGameKey == game_data.d.game.t = "missing"

EmptyRecordFacts ==
    <<": 0 points", " rebounds: 0 total (0 offensive, 0 defensive)", " turnovers: 0",
      " field goal percentage: 0.0%",
      ": 0 points", " rebounds: 0 total (0 offensive, 0 defensive)", " turnovers: 0",
      " field goal percentage: 0.0%",
      "Game was decided by 0 points (close game)">>

\* C1 as stated: a record with no `game` key yields an empty fact sequence and a
\* prompt whose facts section is the empty string, preamble, "Facts:" and tone
\* lines still present.
C1_EmptyRecordNoFacts ==
    NoGameKey =>
        /\ Filtered => ret = <<>>
        /\ Prompted => WellFormedPrompt(ret, tone) /\ FactLines(ret) = <<"">>

\* C1 amended: a record with no `game` key yields exactly nine facts (for each
\* team, under the empty team name, the score, rebounds, turnovers and 0.0%
\* field-goal lines, then the 0-point close-game line), and a prompt whose facts
\* section is these nine bullet lines between the preamble, "Facts:" and tone lines.
C1_EmptyRecordNineFacts ==
    NoGameKey =>
        /\ called = "filter_relevant_statistics" => exc = "" /\ ret = EmptyRecordFacts
        /\ called = "generate_llm_prompt" =>
              /\ exc = ""
              /\ WellFormedPrompt(ret, tone)
              /\ AllBulleted(FactLines(ret))
              /\ Unbulleted(FactLines(ret)) = EmptyRecordFacts

C1_Witness == NoGameKey /\ Prompted /\ Len(Lines(ret)) = 14

Sellout == game_data.d.game.d.sellout

\* C2 as stated: the fact 'Arena was sold out' is emitted iff the sellout indicator
\* is the string "1" or the boolean true; the integer 1 emits nothing.
C2_SelloutOnlyStringOrTrue ==
    (called = "filter_relevant_statistics" /\ game_data.d.game.t = "dict") =>
        (Emitted("Arena was sold out") <=> Sellout \in {PyStr("1"), PyBool(TRUE)})

\* C2 amended: the fact 'Arena was sold out' is emitted iff the sellout indicator
\* is the string "1", the integer 1 or the boolean true; for every other value
\* (the float 1.0, the strings "true" and "0", null, an absent indicator) and for
\* a record without `game`, no sellout fact is emitted.
C2_SelloutStringIntOrTrue ==
    called = "filter_relevant_statistics" =>
        /\ exc = ""
        /\ Emitted("Arena was sold out") <=>
              /\ game_data.d.game.t = "dict"
              /\ Sellout \in {PyStr("1"), PyInt(1), PyBool(TRUE)}

C2_Witness ==
    /\ Filtered /\ game_data.d.game.t = "dict"
    /\ Sellout = PyInt(1) /\ Emitted("Arena was sold out")

\* the record with every missing key filled in with the default the claim names:
\* 0 for a number, the empty string for a text, false for the sellout indicator
DefaultStats ==
    Stats(PyInt(0), PyInt(0), PyStr(""), PyInt(0), PyInt(0), PyInt(0), PyInt(0),
          PyInt(0), PyInt(0), PyInt(0), PyInt(0), PyInt(0), PyInt(0))
DefaultTeam == Team(PyStr(""), PyStr(""), PyInt(0), DefaultStats)
DefaultArena == PyDict([arenaName |-> PyStr(""), arenaCity |-> PyStr("")])
DefaultGame ==
    PyDict([gameTimeLocal |-> PyStr(""), arena |-> DefaultArena, sellout |-> PyBool(FALSE),
            homeTeam |-> DefaultTeam, awayTeam |-> DefaultTeam])

RECURSIVE Filled(_, _)
Filled(v, default) ==
    IF v.t = "missing" THEN default
    ELSE IF v.t = "dict" THEN PyDict([k \in DOMAIN v.d |-> Filled(v.d[k], default.d[k])])
    ELSE v

HasMissing(v) == v.t = "dict" /\ \E k \in DOMAIN v.d : v.d[k].t = "missing"

TeamLineStarts ==
    {": ", " bench: ", " biggest lead: ", " rebounds: ", " turnovers: ",
     " field goal percentage: ", " three-pointers: ", " fast break points: ",
     " points off turnovers: "}

IsTeamFact(fact, team_name) == \E start \in TeamLineStarts : StartsWith(fact, team_name \o start)

ContextLineStarts ==
    {"Game was decided by ", "Game featured ", "Game had ", "Home team ", "Away team "}

Groups(fact, home_name, away_name) ==
    (IF StartsWith(fact, "Game was played in the ") THEN {1} ELSE {})
    \cup (IF StartsWith(fact, "Venue: ") THEN {2} ELSE {})
    \cup (IF fact = "Arena was sold out" THEN {3} ELSE {})
    \cup (IF IsTeamFact(fact, home_name) THEN {4} ELSE {})
    \cup (IF IsTeamFact(fact, away_name) THEN {5} ELSE {})
    \cup (IF \E start \in ContextLineStarts : StartsWith(fact, start) THEN {6} ELSE {})

\* no fact stands before a fact that can only belong to an earlier group
RECURSIVE GroupList(_, _, _)
GroupList(facts, home_name, away_name) ==
    IF facts = <<>> THEN <<>>
    ELSE <<Groups(Head(facts), home_name, away_name)>>
         \o GroupList(Tail(facts), home_name, away_name)

InOrder(g) ==
    /\ \A i \in 1..Len(g) : g[i] # {}
    /\ \A i, j \in 1..Len(g) : i < j => \E a \in g[i], b \in g[j] : a <= b

InGroupOrder(facts, home_name, away_name) == InOrder(GroupList(facts, home_name, away_name))

GameOrEmpty == Get(game_data, "game", EmptyGame)
HomeName == TeamName(Get(GameOrEmpty, "homeTeam", EmptyTeam))
AwayName == TeamName(Get(GameOrEmpty, "awayTeam", EmptyTeam))

\* C4: the returned facts stand in the group order time of day, venue, sellout,
\* home-team facts, away-team facts, game-context facts, and the bullet lines of
\* the prompt, each "- <fact>", stand in that same order.
C4_GroupOrder ==
    /\ Filtered => InGroupOrder(ret, HomeName, AwayName)
    /\ Prompted =>
          LET bullets == FactLines(ret)
          IN /\ AllBulleted(bullets)
             /\ InGroupOrder(Unbulleted(bullets), HomeName, AwayName)

\* a prompt with a fact of each of the six groups, the two team names differing
C4_Witness ==
    /\ Prompted
    /\ HomeName # AwayName /\ HomeName # "" /\ AwayName # ""
    /\ LET g == GroupList(Unbulleted(FactLines(ret)), HomeName, AwayName)
       IN \A group \in 1..6 : \E i \in 1..Len(g) : g[i] = {group}

(***************************************************************************)
(* Properties of extract_team_statistics (SpecTeam)                        *)
(***************************************************************************)
Extracted == called = "extract_team_statistics"

NoStatistics == team_data.d.statistics.t = "missing"

\* the display name and the score as text, read off the record
DisplayName ==
    LET city == team_data.d.teamCity
        name == team_data.d.teamName
    IN IF city.t = "missing" /\ name.t = "missing" THEN ""
       ELSE IF city.t = "missing" THEN name.s
       ELSE IF name.t = "missing" THEN city.s
       ELSE city.s \o " " \o name.s

ScoreText == IF team_data.d.score.t = "missing" THEN "0" ELSE IntToStr(team_data.d.score.n)

\* C5 as stated: a team record with no `statistics` mapping yields exactly one
\* fact, the score line.
C5_OnlyScoreLine ==
    (Extracted /\ NoStatistics) =>
        ret = <<DisplayName \o ": " \o ScoreText \o " points">>

\* C5 amended: a team record with no `statistics` mapping yields exactly four
\* facts: the score line, the rebounds line with 0 total, 0 offensive and 0
\* defensive, the turnovers line with 0, and the field-goal line with 0.0%; no
\* bench, lead, three-pointer, fast-break or points-off-turnovers line.
C5_FourAlwaysEmittedLines ==
    (Extracted /\ NoStatistics) =>
        /\ exc = ""
        /\ ret = <<DisplayName \o ": " \o ScoreText \o " points",
                   DisplayName \o " rebounds: 0 total (0 offensive, 0 defensive)",
                   DisplayName \o " turnovers: 0",
                   DisplayName \o " field goal percentage: 0.0%">>

C5_Witness ==
    /\ Extracted /\ NoStatistics /\ exc = "" /\ Len(ret) = 4
    /\ team_data.d.teamCity.t = "missing" /\ team_data.d.teamName.t = "str"

\* the team's field-goal percentage in thousandths, 0 where it is not given
FieldGoalPercentage ==
    IF NoStatistics \/ team_data.d.statistics.d.fieldGoalsPercentage.t = "missing" THEN 0
    ELSE team_data.d.statistics.d.fieldGoalsPercentage.n

FieldGoalFacts == {i \in 1..Len(ret) : Contains(ret[i], " field goal percentage: ")}

\* C6: the field-goal-percentage fact is emitted iff p > 0.50 or p < 0.40; at
\* exactly 0.50 and exactly 0.40 it is not emitted.
C6_FieldGoalCutoffs ==
    Extracted =>
        /\ exc = ""
        /\ FieldGoalFacts # {} <=> (FieldGoalPercentage > 500 \/ FieldGoalPercentage < 400)
        /\ FieldGoalPercentage \in {400, 500} => FieldGoalFacts = {}

C6_Witness == Extracted /\ exc = "" /\ FieldGoalPercentage = 500 /\ FieldGoalFacts = {}

(***************************************************************************)
(* Properties of calculate_game_context (SpecContext)                      *)
(***************************************************************************)
Calculated == called = "calculate_game_context"

\* a team's score and statistics as numbers, 0 where they are not given
ScoreOf(team) == IF team.d.score.t = "missing" THEN 0 ELSE team.d.score.n
StatOf(team, key) ==
    IF team.d.statistics.t = "missing" \/ team.d.statistics.d[key].t = "missing" THEN 0
    ELSE team.d.statistics.d[key].n

FactsWith(part) == {i \in 1..Len(ret) : Contains(ret[i], part)}
TheFact(S) == ret[CHOOSE i \in S : TRUE]

PointDiff == Abs(ScoreOf(home_team) - ScoreOf(away_team))

\* C7: exactly one point-differential fact, stating |home_score - away_score|,
\* labelled '(close game)' iff the differential is <= 5, '(blowout)' iff it is
\* > 10, unlabelled iff it is 6 to 10, with 'point' iff the differential is 1 and
\* 'points' otherwise (0 included).
C7_PointDifferential ==
    Calculated =>
        /\ exc = ""
        /\ Cardinality(FactsWith("Game was decided by ")) = 1
        /\ LET fact == TheFact(FactsWith("Game was decided by "))
               singular == "Game was decided by " \o IntToStr(PointDiff) \o " point"
               plural == singular \o "s"
           IN /\ fact \in {singular, singular \o " (close game)", singular \o " (blowout)",
                           plural, plural \o " (close game)", plural \o " (blowout)"}
              /\ EndsWith(fact, " (close game)") <=> PointDiff <= 5
              /\ EndsWith(fact, " (blowout)") <=> PointDiff > 10
              /\ fact \in {singular, plural} <=> PointDiff \in 6..10
              /\ StartsWith(fact, plural) <=> PointDiff # 1

C7_Witness ==
    /\ Calculated /\ exc = "" /\ PointDiff = 1
    /\ FactsWith("Game was decided by 1 point (close game)") # {}

LeadChanges == StatOf(home_team, "leadChanges")

\* C8: no lead-change fact for a count of 0; for 1 to 5 one fact without the
\* '(back-and-forth)' label; for more than 5 one fact with the label; never more
\* than one lead-change fact.
C8_LeadChanges ==
    Calculated =>
        /\ exc = ""
        /\ Cardinality(FactsWith(" lead change")) <= 1
        /\ LeadChanges = 0 <=> FactsWith(" lead change") = {}
        /\ LeadChanges \in 1..5 =>
              /\ FactsWith(" " \o IntToStr(LeadChanges) \o " lead change") # {}
              /\ FactsWith("(back-and-forth)") = {}
        /\ LeadChanges > 5 =>
              /\ FactsWith(" " \o IntToStr(LeadChanges) \o " lead change") # {}
              /\ FactsWith("(back-and-forth)") = FactsWith(" lead change")

C8_Witness ==
    /\ Calculated /\ exc = "" /\ LeadChanges = 6
    /\ FactsWith("Game featured 6 lead changes (back-and-forth)") # {}

HomeRebounds == StatOf(home_team, "reboundsTotal")
AwayRebounds == StatOf(away_team, "reboundsTotal")
ReboundDiff == Abs(HomeRebounds - AwayRebounds)

\* C9: the rebounding-dominance fact is emitted iff |home_rebounds -
\* away_rebounds| >= 10; it names 'Home' iff the home team has more total
\* rebounds and 'Away' iff the away team has more, and states the positive margin.
C9_ReboundingDominance ==
    Calculated =>
        /\ exc = ""
        /\ Cardinality(FactsWith(" team dominated rebounding")) <= 1
        /\ FactsWith(" team dominated rebounding") # {} <=> ReboundDiff >= 10
        /\ ReboundDiff >= 10 =>
              LET fact == TheFact(FactsWith(" team dominated rebounding"))
                  tail == " team dominated rebounding (+" \o IntToStr(ReboundDiff)
                          \o " rebounds)"
              IN /\ fact \in {"Home" \o tail, "Away" \o tail}
                 /\ fact = "Home" \o tail <=> HomeRebounds > AwayRebounds
                 /\ fact = "Away" \o tail <=> AwayRebounds > HomeRebounds

C9_Witness ==
    /\ Calculated /\ exc = "" /\ ReboundDiff = 10 /\ AwayRebounds > HomeRebounds
    /\ FactsWith("Away team dominated rebounding (+10 rebounds)") # {}

HomeTurnovers == StatOf(home_team, "turnoversTotal")
AwayTurnovers == StatOf(away_team, "turnoversTotal")
TurnoverDiff == Abs(HomeTurnovers - AwayTurnovers)

\* C10: the turnover fact is emitted iff |home_turnovers - away_turnovers| >= 5;
\* it names the team with the fewer turnovers ('Home' iff home_turnovers <
\* away_turnovers, else 'Away') and states the margin, so home 10, away 4 gives
\* 'Away team had 6 fewer turnovers'; equal counts give no turnover fact.
C10_TurnoverDiscipline ==
    Calculated =>
        /\ exc = ""
        /\ Cardinality(FactsWith(" fewer turnovers")) <= 1
        /\ FactsWith(" fewer turnovers") # {} <=> TurnoverDiff >= 5
        /\ HomeTurnovers = AwayTurnovers => FactsWith(" fewer turnovers") = {}
        /\ TurnoverDiff >= 5 =>
              LET fact == TheFact(FactsWith(" fewer turnovers"))
                  tail == " team had " \o IntToStr(TurnoverDiff) \o " fewer turnovers"
              IN /\ fact \in {"Home" \o tail, "Away" \o tail}
                 /\ fact = "Home" \o tail <=> HomeTurnovers < AwayTurnovers
        /\ (HomeTurnovers = 10 /\ AwayTurnovers = 4) =>
              FactsWith(" fewer turnovers") = FactsWith("Away team had 6 fewer turnovers")

C10_Witness ==
    /\ Calculated /\ exc = "" /\ HomeTurnovers = 10 /\ AwayTurnovers = 4
    /\ \E i \in 1..Len(ret) : ret[i] = "Away team had 6 fewer turnovers"

(***************************************************************************)
(* The prompt as a function of record and tone (Spec)                      *)
(***************************************************************************)
\* the lines of the template around the given facts
PromptLinesFor(facts, style) ==
    <<"Write a professional NBA recap paragraph.", "", "Facts:">>
    \o [i \in 1..Len(facts) |-> "- " \o facts[i]]
    \o <<"", "Tone: " \o style>>

\* a call of generate_llm_prompt: its result is read in the next state
C11_PromptCall ==
    (called' = "generate_llm_prompt") =>
        /\ exc' = ""
        \* preamble, one "- <fact>" line per fact of the filter, in order, tone line
        /\ Lines(ret') = PromptLinesFor(FilterRelevantStatistics(game_data).val, tone)
        \* the facts are those a preceding call of the filter returned
        /\ Filtered => Unbulleted(FactLines(ret')) = ret
        \* a preceding call of the composer returned the same text
        /\ Prompted => ret' = ret

\* C11: generate_llm_prompt depends on its record and tone only: a call returns
\* the text an earlier call returned for them, and the text is the preamble, one
\* "- <fact>" line per fact of filter_relevant_statistics, in the same order and
\* number, newline-joined, then the line "Tone: <tone>" with the tone as given.
C11_PromptIsTemplateOfFacts == [][C11_PromptCall]_vars

\* a prompt with at least twenty facts under the non-default tone
C11_Witness ==
    /\ Prompted /\ tone = "excited, highlight-reel style"
    /\ Len(FactLines(ret)) >= 20 /\ AllBulleted(FactLines(ret))

(***************************************************************************)
(* determine_time_of_day on time stamps                                    *)
(***************************************************************************)
Hours == 0..23

TwoDigits(n) == Digit(n \div 10) \o Digit(n % 10)

\* the UTC offsets of the stamps: none, Z, behind and ahead of UTC
Offsets == {"", "Z", "+00:00", "-05:00", "+09:00"}

\* ISO stamps of the given hour, at the start, middle and end of the hour
StampsAt(hour) ==
    {PyStr(date \o "T" \o TwoDigits(hour) \o clock \o offset) :
        date \in {"2021-01-15", "2020-02-29"},
        clock \in {":00:00", ":30:00", ":59:59", ":30", ":30:00.500"},
        offset \in Offsets}

\* values that are no ISO stamp: fromisoformat raises ValueError on the strings,
\* .replace raises AttributeError on the others
Malformed ==
    {PyStr(""), PyStr("tonight"), PyStr("7:30 PM"), PyStr("Z"),
     PyStr("2021-13-15T19:30:00"), PyStr("2021-02-30T10:00:00"),
     PyStr("2021-01-15T25:00:00"), PyStr("2021-01-15T24:00:00"),
     PyStr("2021-01-15T10:60:00"), PyStr("2021-01-15T1O:30:00"),
     PyStr("2021-01-15T10:30:00+5"), PyStr("2021-01-15T10:30:00 EST"),
     PyStr("2021/01/15 10:30"),
     PyNone, PyInt(1030), PyFloat(10500), PyBool(TRUE), PyDict(EmptyGame)}

CallDetermineTimeOfDay ==
    /\ Returned("determine_time_of_day", Return(DetermineTimeOfDay(game_time_local)))
    /\ UNCHANGED <<args, server>>

InitTime ==
    /\ game_time_local \in (UNION {StampsAt(hour) : hour \in Hours}) \cup Malformed
    /\ game_data = NoArg /\ tone = "" /\ team_data = NoArg
    /\ home_team = NoArg /\ away_team = NoArg
    /\ NoCall /\ NoServer

NextTime == CallDetermineTimeOfDay

SpecTime == InitTime /\ [][NextTime]_vars

Labelled == called = "determine_time_of_day"

\* C12: determine_time_of_day returns "morning" exactly for a stamp whose own
\* hour is below 12, "afternoon" exactly for an hour from 12 to 16 and "evening"
\* for an hour from 17 on, whatever the stamp's UTC offset; a value that is
\* absent, malformed or unparseable gives "evening"; no call raises, and the
\* result is always one of the three labels.
C12_TimeOfDayByEmbeddedHour ==
    Labelled =>
        /\ exc = ""
        /\ ret \in {"morning", "afternoon", "evening"}
        /\ \A hour \in Hours :
              game_time_local \in StampsAt(hour) =>
                  /\ ret = "morning" <=> hour < 12
                  /\ ret = "afternoon" <=> (12 <= hour /\ hour < 17)
                  /\ ret = "evening" <=> hour >= 17
        /\ game_time_local \in Malformed => ret = "evening"

\* noon behind UTC is labelled afternoon: in UTC it would be 17:00, evening
C12_Witness ==
    /\ Labelled
    /\ game_time_local = PyStr("2021-01-15T12:00:00-05:00")
    /\ ret = "afternoon"

MaxOverwrites == 3
MaxGenerations == 2

(***************************************************************************)
(* main.py: the requests of the server                                     *)
(***************************************************************************)
\* the requests served at the same time: FastAPI runs each def endpoint in a
\* thread of its pool
Requests == {1, 2}

\* a thread of the pool, before and after a request
Idle ==
    [pc |-> "idle", now |-> 0, data |-> Missing, game_id |-> "", cached |-> Missing,
     boxscore_data |-> Missing, generated |-> Missing, generated_at |-> "",
     status |-> 0, body |-> Missing]

\* the response of the request leaves the handler
Respond(p, status, body) ==
    req' = [req EXCEPT ![p].pc = "done", ![p].status = status, ![p].body = body]

Goto(p, pc) == req' = [req EXCEPT ![p].pc = pc]

\* the response is delivered and the thread returns to the pool
Finish(p) ==
    /\ req[p].pc = "done"
    /\ req' = [req EXCEPT ![p] = Idle]
    /\ UNCHANGED <<args, called, ret, exc, wall_clock, scoreboard_today, refreshed_at,
                   overwrites, boxscore_files, summary_files, service_calls, mock_summaries>>

(***************************************************************************)
(* refresh_games_today                                                     *)
(***************************************************************************)
REFRESH_COOLDOWN_SECONDS == 30 * 60

\* the instants of time.time(), in thousandths of a second: the start, and
\* half a second before, at and after the end of one cooldown
Instants ==
    LET cooldown == 1000 * REFRESH_COOLDOWN_SECONDS
    IN {0, cooldown - 500, cooldown, cooldown + 500}

\* float(x) in thousandths, -1 where float raises ValueError
ParseFloat(x) ==
    LET dots == {i \in 1..Len(x) : SubSeq(x, i, i) = "."}
        at == CHOOSE i \in dots : TRUE
        whole == SubSeq(x, 1, at - 1)
        frac == SubSeq(x, at + 1, Len(x))
    IN IF x = "" THEN -1
       ELSE IF dots = {} THEN (IF IsDigits(x) THEN 1000 * StrToNat(x) ELSE -1)
       ELSE IF /\ Cardinality(dots) = 1 /\ Len(whole) > 0 /\ Len(frac) \in 1..3
               /\ IsDigits(whole) /\ IsDigits(frac)
            THEN 1000 * StrToNat(whole) + StrToNat(frac) * 10 ^ (3 - Len(frac))
            ELSE -1

\* the cooldown test on the content of the refreshed-at file, absent when Missing
Cooldown(stamp, now) ==
    LET last == ParseFloat(Strip(stamp.s))
        elapsed == now - last
        seconds_left == (1000 * REFRESH_COOLDOWN_SECONDS - elapsed) \div 1000
        minutes_left == (seconds_left + 59) \div 60
    IN IF stamp = Missing THEN [limited |-> FALSE]
       \* except (ValueError, OSError): pass
       ELSE IF last < 0 THEN [limited |-> FALSE]
       ELSE IF elapsed < 1000 * REFRESH_COOLDOWN_SECONDS
       THEN [limited |-> TRUE,
             content |-> [detail |-> "Refresh on cooldown. Try again in "
                                     \o NatToStr(minutes_left) \o " minute(s).",
                          retryAfterSeconds |-> seconds_left],
             headers |-> [RetryAfter |-> NatToStr(seconds_left)]]
       ELSE [limited |-> FALSE]

\* now = time.time()
RefreshStart(p) ==
    /\ req[p].pc = "idle"
    /\ Len(overwrites) < MaxOverwrites
    /\ req' = [req EXCEPT ![p].pc = "refresh_check", ![p].now = wall_clock]
    /\ UNCHANGED <<args, called, ret, exc, wall_clock, scoreboard_today, refreshed_at,
                   overwrites, boxscore_files, summary_files, service_calls, mock_summaries>>

\* the refreshed-at file is read and compared with now
RefreshCheck(p) ==
    /\ req[p].pc = "refresh_check"
    /\ LET cooldown == Cooldown(refreshed_at, req[p].now)
       IN IF cooldown.limited
          THEN Respond(p, 429, [content |-> cooldown.content, headers |-> cooldown.headers])
          ELSE Goto(p, "refresh_fetch")
    /\ UNCHANGED <<args, called, ret, exc, wall_clock, scoreboard_today, refreshed_at,
                   overwrites, boxscore_files, summary_files, service_calls, mock_summaries>>

\* scoreboard.ScoreBoard().get_dict(): the scoreboard of this instant, or an exception
RefreshFetch(p) ==
    /\ req[p].pc = "refresh_fetch"
    /\ \/ req' = [req EXCEPT ![p].pc = "refresh_write", ![p].data = PyInt(wall_clock)]
       \/ Respond(p, 500, "Failed to refresh scoreboard")
    /\ UNCHANGED <<args, called, ret, exc, wall_clock, scoreboard_today, refreshed_at,
                   overwrites, boxscore_files, summary_files, service_calls, mock_summaries>>

\* json.dump(data, f) into scoreboard_today.json, or an exception on opening it
RefreshWrite(p) ==
    /\ req[p].pc = "refresh_write"
    /\ \/ /\ scoreboard_today' = req[p].data
          /\ overwrites' = Append(overwrites, req[p].data.n)
          /\ Goto(p, "refresh_stamp")
       \/ /\ Respond(p, 500, "Failed to refresh scoreboard")
          /\ UNCHANGED <<scoreboard_today, overwrites>>
    /\ UNCHANGED <<args, called, ret, exc, wall_clock, refreshed_at,
                   boxscore_files, summary_files, service_calls, mock_summaries>>

\* SCOREBOARD_REFRESHED_AT_FILE.write_text(str(now)) and the games are returned
RefreshStamp(p) ==
    /\ req[p].pc = "refresh_stamp"
    /\ refreshed_at' = PyStr(FloatToStr(req[p].now))
    /\ Respond(p, 200, req[p].data)
    /\ UNCHANGED <<args, called, ret, exc, wall_clock, scoreboard_today,
                   overwrites, boxscore_files, summary_files, service_calls, mock_summaries>>

\* time passes
Tick ==
    /\ \E later \in Instants : later > wall_clock /\ wall_clock' = later
    /\ UNCHANGED <<args, called, ret, exc, scoreboard_today, refreshed_at,
                   overwrites, boxscore_files, summary_files, service_calls, mock_summaries, req>>

\* the server starts without the two files, or with those of an earlier refresh,
\* the refreshed-at file whole or cut short
InitRefresh ==
    /\ wall_clock = 0
    /\ \/ scoreboard_today = Missing /\ refreshed_at = Missing
       \/ scoreboard_today = PyInt(0) /\ refreshed_at \in {PyStr(FloatToStr(0)), PyStr("")}
    /\ overwrites = <<>>
    /\ boxscore_files = <<>> /\ summary_files = <<>> /\ service_calls = <<>>
    /\ mock_summaries = <<>>
    /\ req = [p \in Requests |-> Idle]
    /\ game_data = NoArg /\ tone = "" /\ team_data = NoArg
    /\ home_team = NoArg /\ away_team = NoArg /\ game_time_local = NoArg
    /\ NoCall

NextRefresh ==
    \/ \E p \in Requests : RefreshStart(p)
    \/ \E p \in Requests : RefreshCheck(p)
    \/ \E p \in Requests : RefreshFetch(p)
    \/ \E p \in Requests : RefreshWrite(p)
    \/ \E p \in Requests : RefreshStamp(p)
    \/ \E p \in Requests : Finish(p)
    \/ Tick

SpecRefresh == InitRefresh /\ [][NextRefresh]_vars

\* C13: over any sequence and interleaving of calls of refresh_games_today, two
\* upstream scoreboard fetches that overwrite the today cache are at least
\* REFRESH_COOLDOWN_SECONDS apart.
C13_OverwritingFetchesCooldownApart ==
    \A i, j \in 1..Len(overwrites) :
        i < j => overwrites[j] - overwrites[i] >= 1000 * REFRESH_COOLDOWN_SECONDS

(***************************************************************************)
(* get_game_summary                                                        *)
(***************************************************************************)
GameSummary(gameId, summary, generatedAt, awayTeamId, homeTeamId, awayTeam, homeTeam) ==
    [gameId |-> gameId, summary |-> summary, generatedAt |-> generatedAt,
     awayTeamId |-> awayTeamId, homeTeamId |-> homeTeamId,
     awayTeam |-> awayTeam, homeTeam |-> homeTeam]

SixDigits(n) == TwoDigits(n \div 10000) \o TwoDigits((n \div 100) % 100) \o TwoDigits(n % 100)

\* datetime.isoformat() of an instant of the first of January 1970
IsoFormat(instant) ==
    LET seconds == instant \div 1000
        microsecond == (instant % 1000) * 1000
    IN "1970-01-01T" \o TwoDigits(seconds \div 3600) \o ":"
       \o TwoDigits((seconds \div 60) % 60) \o ":" \o TwoDigits(seconds % 60)
       \o (IF microsecond = 0 THEN "" ELSE "." \o SixDigits(microsecond))

MockIds == {"101", "102", "103", "201", "203"}

MockText(game_id) ==
    CASE game_id = "101" ->
          "The Warriors secured a 115-108 victory over the Lakers in a closely co"
          \o "ntested matchup. Stephen Curry led all scorers with 32 points, while L"
          \o "eBron James put up 28 points for the Lakers. The game was tied heading"
          \o " into the fourth quarter, but the Warriors pulled away with clutch thr"
          \o "ee-point shooting down the stretch."
      [] game_id = "102" ->
          "The Celtics dominated from start to finish, defeating the Heat 122-98."
          \o " Jayson Tatum scored 35 points and grabbed 12 rebounds, leading Boston"
          \o " to their largest margin of victory this season. Miami struggled with "
          \o "turnovers, committing 18 compared to Boston's 8."
      [] game_id = "103" ->
          "In a back-and-forth battle, the Nuggets edged out the Suns 119-113. Ni"
          \o "kola Jokic recorded a triple-double with 27 points, 14 rebounds, and 1"
          \o "1 assists. Devin Booker scored 38 points for Phoenix, but it wasn't en"
          \o "ough as Denver's balanced scoring attack proved too much."
      [] game_id = "201" ->
          "The Warriors defeated the Lakers 115-108 in today's matchup. Key perfo"
          \o "rmances from Curry and James highlighted an entertaining game."
      [] game_id = "203" ->
          "The Nuggets won today's game against the Suns 119-113, with Jokic lead"
          \o "ing the way."

\* MOCK_SUMMARIES as the module is imported
MOCK_SUMMARIES ==
    [game_id \in MockIds |->
        GameSummary(PyStr(game_id), PyStr(MockText(game_id)), PyStr(IsoFormat(0)),
                    PyNone, PyNone, PyNone, PyNone)]

\* the game ids requested: a game of the league and a mock game
GameIds == {"0022000181", "101"}

ServerTeam(team, id) ==
    PyDict([teamId |-> PyInt(id), teamCity |-> team.d.teamCity, teamName |-> team.d.teamName,
            score |-> team.d.score, statistics |-> team.d.statistics])

\* a box score of the upstream source with the given gameStatus
BoxScoreWith(game_status) ==
    PyDict([game |->
        PyDict([gameStatus |-> game_status,
                gameTimeLocal |-> PyStr("2021-01-15T19:30:00-05:00"),
                arena |-> PyDict([arenaName |-> PyStr("TD Garden"),
                                  arenaCity |-> PyStr("Boston")]),
                sellout |-> PyStr("1"),
                homeTeam |-> ServerTeam(Celtics, 1610612738),
                awayTeam |-> ServerTeam(Lakers, 1610612747)])])

\* what boxscore.BoxScore(game_id).get_dict() may return: a game in progress,
\* final, without status, or no game at all
UpstreamBoxScores ==
    {BoxScoreWith(game_status) : game_status \in {Missing, PyInt(2), PyInt(3)}}
    \cup {PyDict([game |-> Missing])}

\* fetch_boxscore_data: the outcomes, each with the files it leaves: the cached
\* box score, or one fetched and written to the cache, or HTTP 500. The file is
\* taken to be writable: an IOError on writing it is printed and the same data
\* returned.
FetchBoxscoreData(files, game_id) ==
    IF files[game_id] # Missing
    THEN {[exc |-> "", data |-> files[game_id], files |-> files]}
    ELSE {[exc |-> "", data |-> data, files |-> [files EXCEPT ![game_id] = data]] :
             data \in UpstreamBoxScores}
         \cup {[exc |-> "HTTPException", data |-> Missing, files |-> files]}

\* _extract_team_info
ExtractTeamInfo(boxscore_data) ==
    LET game == boxscore_data.d.game
        ht == game.d.homeTeam
        at == game.d.awayTeam
    IN IF game.t = "missing"
       THEN [away_team_id |-> PyNone, away_team_name |-> PyNone,
             home_team_id |-> PyNone, home_team_name |-> PyNone]
       ELSE [away_team_id |-> IF at.t = "missing" THEN PyNone ELSE Get(at, "teamId", PyNone),
             away_team_name |-> IF at.t = "missing" THEN PyNone ELSE Get(at, "teamName", PyNone),
             home_team_id |-> IF ht.t = "missing" THEN PyNone ELSE Get(ht, "teamId", PyNone),
             home_team_name |-> IF ht.t = "missing" THEN PyNone ELSE Get(ht, "teamName", PyNone)]

\* _cached_to_game_summary
CachedToGameSummary(cached) ==
    GameSummary(Get(cached, "gameId", PyStr("")), cached.d.summary,
                Get(cached, "generatedAt", PyStr("")),
                Get(cached, "awayTeamId", PyNone), Get(cached, "homeTeamId", PyNone),
                Get(cached, "awayTeam", PyNone), Get(cached, "homeTeam", PyNone))

\* llm_service.load_cached_summary: the saved summary of the game, or None
LoadCachedSummary(files, game_id) ==
    IF files[game_id] = Missing THEN PyNone ELSE files[game_id]

\* llm_service.save_cached_summary: the summary file of the game is written
SaveCachedSummary(files, game_id, summary, generated_at, info, generated) ==
    [files EXCEPT ![game_id] =
        PyDict([gameId |-> PyStr(game_id), summary |-> summary, generatedAt |-> generated_at,
                awayTeamId |-> info.away_team_id, homeTeamId |-> info.home_team_id,
                awayTeam |-> info.away_team_name, homeTeam |-> info.home_team_name,
                promptTokens |-> generated.prompt_tokens,
                completionTokens |-> generated.completion_tokens])]

\* the recaps the text-generation service may write
Recaps == {"The Celtics beat the Lakers 115-108.", "Boston held off Los Angeles, 115-108."}

\* llm_service.generate_summary: a recap with its token counts, or an exception
LlmGenerateSummary(prompt) ==
    {[exc |-> "", summary_text |-> PyStr(text), prompt_tokens |-> PyInt(Len(prompt) \div 4),
      completion_tokens |-> PyInt(Len(text) \div 4)] : text \in Recaps}
    \cup {[exc |-> e, summary_text |-> PyNone, prompt_tokens |-> PyNone,
           completion_tokens |-> PyNone] :
             e \in {"ValueError: OPENAI_API_KEY is not set", "ValueError", "Exception"}}

\* llm_service.validate_api_key
ValidateApiKey(calls) == calls.api_key

\* a variant that never takes the cached summary
UseCachedNever(cached) == FALSE

\* if cached:
UseCached(cached) == Truthy(cached)

\* a variant that takes only a number below 3 as not final
NotFinalBelowThree(game_status) == IsNumber(game_status) /\ Milli(game_status) < 3000

\* game_status != 3
NotFinal(game_status) == ~(IsNumber(game_status) /\ Milli(game_status) = 3000)

\* the except clauses of get_game_summary: the status of the HTTPException raised
ErrorStatus(e) ==
    IF StartsWith(e, "ValueError")
    THEN (IF Contains(e, "OPENAI_API_KEY") THEN 503 ELSE 500)
    ELSE 503

\* cached = load_cached_summary(game_id), and the cached summary is returned
SummaryStart(p) ==
    /\ req[p].pc = "idle"
    /\ \E game_id \in GameIds :
          /\ \/ service_calls.generate[game_id] < MaxGenerations
             \/ summary_files[game_id] # Missing
          /\ LET cached == LoadCachedSummary(summary_files, game_id)
                 started == [req[p] EXCEPT !.game_id = game_id, !.cached = cached]
             IN req' = [req EXCEPT ![p] =
                    IF UseCached(cached)
                    THEN [started EXCEPT !.pc = "done", !.status = 200,
                                         !.body = CachedToGameSummary(cached)]
                    ELSE IF game_id \in DOMAIN mock_summaries
                    THEN [started EXCEPT !.pc = "summary_mock"]
                    ELSE [started EXCEPT !.pc = "summary_boxscore"]]
    /\ UNCHANGED <<args, called, ret, exc, wall_clock, scoreboard_today, refreshed_at,
                   overwrites, boxscore_files, summary_files, service_calls, mock_summaries>>

\* 2. Legacy mock summaries
SummaryMock(p) ==
    /\ req[p].pc = "summary_mock"
    /\ \E fetched \in FetchBoxscoreData(boxscore_files, req[p].game_id) :
          /\ boxscore_files' = fetched.files
          /\ IF fetched.exc # ""
             THEN /\ Respond(p, 500, "Failed to fetch boxscore data")
                  /\ UNCHANGED mock_summaries
             ELSE LET info == ExtractTeamInfo(fetched.data)
                      summary == [mock_summaries[req[p].game_id] EXCEPT
                                     !.awayTeamId = info.away_team_id,
                                     !.homeTeamId = info.home_team_id,
                                     !.awayTeam = info.away_team_name,
                                     !.homeTeam = info.home_team_name]
                  IN /\ mock_summaries' = [mock_summaries EXCEPT ![req[p].game_id] = summary]
                     /\ req' = [req EXCEPT ![p].pc = "done", ![p].status = 200,
                                           ![p].body = summary,
                                           ![p].boxscore_data = fetched.data]
    /\ UNCHANGED <<args, called, ret, exc, wall_clock, scoreboard_today, refreshed_at,
                   overwrites, summary_files, service_calls>>

\* 3. the box score is fetched, the game must be final and the key set
SummaryBoxscore(p) ==
    /\ req[p].pc = "summary_boxscore"
    /\ \E fetched \in FetchBoxscoreData(boxscore_files, req[p].game_id) :
          /\ boxscore_files' = fetched.files
          /\ IF fetched.exc # ""
             THEN Respond(p, 500, "Failed to fetch boxscore data")
             ELSE LET game == Get(fetched.data, "game", PyDict([gameStatus |-> Missing]))
                      game_status == Get(game, "gameStatus", PyNone)
                      fetching == [req[p] EXCEPT !.boxscore_data = fetched.data]
                  IN req' = [req EXCEPT ![p] =
                         IF NotFinal(game_status)
                         THEN [fetching EXCEPT !.pc = "done", !.status = 400,
                                  !.body = "Summary only available for finished games. Game "
                                           \o req[p].game_id \o " status is not final."]
                         ELSE IF ~ValidateApiKey(service_calls)
                         THEN [fetching EXCEPT !.pc = "done", !.status = 503,
                                  !.body = "Summary generation is not configured."]
                         ELSE [fetching EXCEPT !.pc = "summary_generate"]]
    /\ UNCHANGED <<args, called, ret, exc, wall_clock, scoreboard_today, refreshed_at,
                   overwrites, summary_files, service_calls, mock_summaries>>

\* the prompt is composed and the text-generation service is called
SummaryGenerate(p) ==
    /\ req[p].pc = "summary_generate"
    /\ LET prompt == GenerateLlmPrompt(req[p].boxscore_data, "neutral, ESPN-style")
       IN IF prompt.exc # ""
          THEN /\ Respond(p, ErrorStatus(prompt.exc), prompt.exc)
               /\ UNCHANGED service_calls
          ELSE \E generated \in LlmGenerateSummary(prompt.val) :
                  /\ service_calls' =
                        [service_calls EXCEPT !.generate[req[p].game_id] = @ + 1]
                  /\ IF generated.exc # ""
                     THEN Respond(p, ErrorStatus(generated.exc), generated.exc)
                     ELSE req' = [req EXCEPT
                                     ![p].pc = "summary_save",
                                     ![p].generated = generated,
                                     ![p].generated_at = IsoFormat(wall_clock) \o "Z"]
    /\ UNCHANGED <<args, called, ret, exc, wall_clock, scoreboard_today, refreshed_at,
                   overwrites, boxscore_files, summary_files, mock_summaries>>

\* the summary is saved and returned, or saving raises
SummarySave(p) ==
    /\ req[p].pc = "summary_save"
    /\ LET info == ExtractTeamInfo(req[p].boxscore_data)
           summary_text == req[p].generated.summary_text
           generated_at == PyStr(req[p].generated_at)
       IN \/ /\ summary_files' = SaveCachedSummary(summary_files, req[p].game_id, summary_text,
                                                   generated_at, info, req[p].generated)
             /\ Respond(p, 200, GameSummary(PyStr(req[p].game_id), summary_text, generated_at,
                                            info.away_team_id, info.home_team_id,
                                            info.away_team_name, info.home_team_name))
          \/ /\ Respond(p, ErrorStatus("OSError"), "OSError")
             /\ UNCHANGED summary_files
    /\ UNCHANGED <<args, called, ret, exc, wall_clock, scoreboard_today, refreshed_at,
                   overwrites, boxscore_files, service_calls, mock_summaries>>

\* the server starts with an empty cache directory, the key set or not
InitSummary ==
    /\ wall_clock = 0
    /\ scoreboard_today = Missing /\ refreshed_at = Missing /\ overwrites = <<>>
    /\ boxscore_files = [game_id \in GameIds |-> Missing]
    /\ summary_files = [game_id \in GameIds |-> Missing]
    /\ \E api_key \in BOOLEAN :
          service_calls = [api_key |-> api_key, generate |-> [game_id \in GameIds |-> 0]]
    /\ mock_summaries = MOCK_SUMMARIES
    /\ req = [p \in Requests |-> Idle]
    /\ game_data = NoArg /\ tone = "" /\ team_data = NoArg
    /\ home_team = NoArg /\ away_team = NoArg /\ game_time_local = NoArg
    /\ NoCall

NextSummary ==
    \/ \E p \in Requests : SummaryStart(p)
    \/ \E p \in Requests : SummaryMock(p)
    \/ \E p \in Requests : SummaryBoxscore(p)
    \/ \E p \in Requests : SummaryGenerate(p)
    \/ \E p \in Requests : SummarySave(p)
    \/ \E p \in Requests : Finish(p)
    \/ Tick

SpecSummary == InitSummary /\ [][NextSummary]_vars

(***************************************************************************)
(* The summary cache (SpecSummary)                                         *)
(***************************************************************************)
\* request p enters get_game_summary in this step
Starts(p) == req[p].pc = "idle" /\ req'[p].pc # "idle"

\* the text-generation service is called for the game in this step
Generates(game_id) == service_calls'.generate[game_id] > service_calls.generate[game_id]

\* the summary file of the game is written in this step
Saves(game_id) == summary_files'[game_id] # summary_files[game_id]

\* a request is answered from the summary cache some time after the generation
ServedFromCache(p) ==
    /\ req[p].pc = "done" /\ req[p].status = 200
    /\ Truthy(req[p].cached)
    /\ req[p].body.summary = summary_files[req[p].game_id].d.summary

C14_CachedStep ==
    \A p \in Requests :
        \* a call that starts once the summary is saved
        /\ (Starts(p) /\ summary_files[req'[p].game_id] # Missing) =>
              /\ req'[p].pc = "done" /\ req'[p].status = 200
              /\ req'[p].body.summary = summary_files[req'[p].game_id].d.summary
              /\ req'[p].body.generatedAt = summary_files[req'[p].game_id].d.generatedAt
              /\ UNCHANGED <<boxscore_files, summary_files, service_calls, mock_summaries>>
        \* a request calls the service, or writes the cache, only having found no summary
        /\ (req[p].pc = "summary_generate" /\ Generates(req[p].game_id)) =>
              ~Truthy(req[p].cached)
        /\ (req[p].pc = "summary_save" /\ Saves(req[p].game_id)) =>
              ~Truthy(req[p].cached)

GameStatusOf(boxscore_data) ==
    IF boxscore_data.d.game.t = "missing" THEN Missing
    ELSE boxscore_data.d.game.d.gameStatus

\* the request found no cached summary and retrieved a box score that is not final
UncachedNotFinal(p) ==
    /\ ~Truthy(req[p].cached)
    /\ req[p].boxscore_data # Missing
    /\ GameStatusOf(req[p].boxscore_data) # PyInt(3)

Refused(p) ==
    /\ req[p].pc = "done" /\ req[p].status = 400
    /\ req[p].body = "Summary only available for finished games. Game "
                     \o req[p].game_id \o " status is not final."

\* C15 as stated: for every game id without a cached summary whose box score
\* gameStatus is not 3, get_game_summary answers HTTP 400 without a summary.
C15_NotFinalIsRefused ==
    \A p \in Requests : UncachedNotFinal(p) => Refused(p)

\* C15, amended: for every game id outside MOCK_SUMMARIES without a cached summary
\* whose box score is retrieved with a gameStatus that is not 3, get_game_summary
\* answers HTTP 400 with the detail text and no summary; the request never
\* reaches the generation call or the write of the summary cache.
C15_NotFinalIsRefusedUnlessMock ==
    \A p \in Requests :
        (UncachedNotFinal(p) /\ req[p].game_id \notin MockIds) =>
            /\ Refused(p)
            /\ req[p].generated = Missing

\* a game in progress is refused, nothing generated or saved for it
C15_Witness ==
    \E p \in Requests :
        /\ Refused(p) /\ req[p].game_id = "0022000181"
        /\ GameStatusOf(req[p].boxscore_data) = PyInt(2)
        /\ service_calls.generate[req[p].game_id] = 0
        /\ summary_files[req[p].game_id] = Missing
====
